---- MODULE Spec2Model ----
(***************************************************************************)
(* Verification model of the job reprocessing / media-generation pipeline  *)
(* of social_admin:                                                        *)
(*   - JobProcessor (app/backend/services/job_processor.py)                *)
(*   - request_with_backoff, PreviewDownloadManager and                    *)
(*     TrendingVideoCreator.generate_trend_video                           *)
(*     (app/backend/services/trending_video.py)                            *)
(*   - LocalFilesystemStorage (app/backend/services/storage.py)            *)
(*   - JobService.create_job_with_media_and_campaign                       *)
(*     (app/backend/services/job_service.py)                               *)
(* Each subsystem has its own specification over a shared variable list;   *)
(* the variables of the other subsystems stay at their idle values.        *)
(***************************************************************************)
EXTENDS Integers, Sequences, FiniteSets, TLC

VARIABLES
    \* ---- persistence store and reprocessing passes (JobProcessor) ----
    rows,        \* committed rows of table jobs: id -> row
    media,       \* committed rows of table job_media, per job, in stored order
    pc,          \* per pass: position in process_pending_jobs
    job_ids,     \* per pass: the list returned by _collect_jobs_for_reprocessing
    idx,         \* per pass: position of the for loop in job_ids
    sess,        \* per pass: the Job object held by the per-job session
    outcomes,    \* per pass: how each call of _process_single_job ended
    passResult,  \* per pass: how process_pending_jobs ended
    startStatus, \* per pass: status of every job when the pass started (history)
    sweptAt,     \* per pass: jobs the startup sweep reset (history)
    deletes,     \* number of CRUD deletions so far
    passNo,      \* per pass thread: calls of process_pending_jobs so far (history)
    prevPass,    \* the rows and the result the previous call of process_pending_jobs left
    \* ---- one call of _validate_media_source ----
    vm_media,    \* the JobMedia under validation and its environment
    vm_result,   \* result of the call
    \* ---- one call of request_with_backoff ----
    rb_args,     \* max_attempts, min_backoff, max_backoff as passed by the caller
    rb_endpoint, \* what the endpoint answers, call by call
    rb_attempt,  \* the local variable attempt
    rb_requests, \* number of calls of method(url) so far
    rb_sleeps,   \* the delays passed to time.sleep, in order
    rb_result,   \* running, returned or raised
    rb_error,    \* the attempt whose error was raised (0: none)
    \* ---- generate_trend_video ----
    gv_pc,       \* position in generate_trend_video
    gv_cfg,      \* db session attached, output_path given, track
    gv_upload,   \* the local variable upload_result (key, or "none")
    gv_media_id, \* the local variable job_media_id (0: None)
    gv_exc,      \* the stage whose exception is propagating ("none": none)
    gv_result,   \* what the caller got from the last call
    gv_runs,     \* calls of generate_trend_video so far
    storage,     \* keys of the objects held by the storage service
    temp_dirs,   \* worker temporary directories that exist
    job_media,   \* storage keys of the committed JobMedia rows of the pipeline
    local_copy,  \* storage keys whose video was copied to output_path
    rollback_log, \* storage keys the pipeline called delete_object on (history)
    \* ---- PreviewDownloadManager ----
    sem_value,   \* asyncio.Semaphore._value
    sem_waiters, \* asyncio.Semaphore._waiters, first come first served
    max_concurrency, \* PreviewDownloadManager._max_concurrency
    dl_pc,       \* per download() call: idle, waiting, inflight, done, failed
    sync,        \* per download_sync() call: caller's loop, position, transfers started
    \* ---- LocalFilesystemStorage and the file system ----
    st_files,    \* absolute paths of the regular files that exist
    st_uploaded, \* the files among them whose content an upload wrote
    st_dirs,     \* absolute paths of the directories that exist
    st_result,   \* the last call: operation, outcome, path it acted on
    \* ---- JobService.create_job_with_media_and_campaign ----
    db,          \* committed rows of jobs, job_media and campaigns (counts)
    tx,          \* rows the open session has added and not yet committed (counts)
    jc_pc,       \* position in create_job_with_media_and_campaign
    jc_in,       \* the payloads of the call
    jc_index,    \* position of the loop over media_payloads
    jc_result,   \* how the last call ended
    jc_before,   \* the committed rows when the last call started (history)
    jc_calls,    \* calls so far
    \* ---- one call of _validate_job ----
    vj_count,    \* len(job.media)
    vj_index,    \* media items validated so far
    vj_progress, \* job.progress_percent of the Job object
    vj_result    \* running, returned, or the code of the JobProcessingError raised

jpVars == <<rows, media, pc, job_ids, idx, sess, outcomes, passResult,
            startStatus, sweptAt, deletes, passNo, prevPass>>
vmVars == <<vm_media, vm_result>>
rbVars == <<rb_args, rb_endpoint, rb_attempt, rb_requests, rb_sleeps, rb_result, rb_error>>
gvVars == <<gv_pc, gv_cfg, gv_upload, gv_media_id, gv_exc, gv_result, gv_runs, storage, temp_dirs,
            job_media, local_copy, rollback_log>>
dlVars == <<sem_value, sem_waiters, max_concurrency, dl_pc, sync>>
stVars == <<st_files, st_uploaded, st_dirs, st_result>>
jcVars == <<db, tx, jc_pc, jc_in, jc_index, jc_result, jc_before, jc_calls>>
vjVars == <<vj_count, vj_index, vj_progress, vj_result>>
vars == <<jpVars, vmVars, rbVars, gvVars, dlVars, stVars, jcVars, vjVars>>

-----------------------------------------------------------------------------
(* Bounds                                                                  *)
MaxJobs == 2
MaxMedia == 2
MaxDeletes == 1
MaxPasses == 2

JobIds == 1..MaxJobs

Max2(a, b) == IF a >= b THEN a ELSE b
Min2(a, b) == IF a <= b THEN a ELSE b
\* The job-reprocessor threads: that of the application, and that of a second
\* application process started on the same database.
Passes == {"job-reprocessor", "job-reprocessor-2"}

-----------------------------------------------------------------------------
(* HTTP environment                                                        *)

\* Status codes a server can answer with; 600 stands for a non-standard code
\* outside the 1xx-5xx classes.
StatusCodes == {200, 302, 404, 405, 429, 500, 501, 600}

\* requests.RequestException subclasses raised at the network level.
NetworkErrors == {"ConnectionError", "Timeout"}

HttpOutcomes ==
    {[kind |-> "response", status |-> s] : s \in StatusCodes}
        \cup {[kind |-> k, status |-> 0] : k \in NetworkErrors}

\* requests.Response.raise_for_status(): HTTPError for 4xx and 5xx.
RaiseForStatus(status) == status >= 400 /\ status < 600

-----------------------------------------------------------------------------
(* Media validation (pure functions of the media row and its environment)  *)

UrlKinds == {"empty", "http", "https", "file", "relative", "absolute"}

\* A JobMedia row together with what the outside world answers for it.
MediaInputs ==
    [media_url : UrlKinds, storage_url : UrlKinds, file_exists : BOOLEAN,
     head : HttpOutcomes, get : HttpOutcomes]

Truthy(url) == url # "empty"

\* media.media_url or media.storage_url
MediaSource(m) == IF Truthy(m.media_url) THEN m.media_url ELSE m.storage_url

IsRemote(url) == url \in {"http", "https"}

Valid(method, status, heads, gets) ==
    [ok |-> TRUE, code |-> "ok", method |-> method, status |-> status,
     heads |-> heads, gets |-> gets]

Invalid(code, method, status, heads, gets) ==
    [ok |-> FALSE, code |-> code, method |-> method, status |-> status,
     heads |-> heads, gets |-> gets]

\* _verify_remote_with_get: one streamed GET, status-only check.
VerifyRemoteWithGet(m, heads) ==
    IF m.get.kind # "response"
    THEN Invalid("network_error", "GET", 0, heads, 1)
    ELSE IF m.get.status >= 400
         THEN Invalid("bad_status", "GET", m.get.status, heads, 1)
         ELSE Valid("GET", m.get.status, heads, 1)

\* Statuses for which _check_remote_media falls back to GET.
HeadFallbackStatuses == {405, 501}

\* _check_remote_media: HEAD probe; raise_for_status() runs inside the try
\* block whose handler maps every RequestException to network_error.
CheckRemoteMedia(m) ==
    IF m.head.kind # "response"
    THEN Invalid("network_error", "HEAD", 0, 1, 0)
    ELSE IF RaiseForStatus(m.head.status)
         THEN Invalid("network_error", "HEAD", m.head.status, 1, 0)
         ELSE IF m.head.status \in HeadFallbackStatuses
              THEN VerifyRemoteWithGet(m, 1)
              ELSE IF m.head.status >= 400
                   THEN Invalid("bad_status", "HEAD", m.head.status, 1, 0)
                   ELSE Valid("HEAD", m.head.status, 1, 0)

\* _validate_media_source
ValidateMediaSource(m) ==
    IF ~Truthy(MediaSource(m))
    THEN Invalid("missing_url", "none", 0, 0, 0)
    ELSE IF IsRemote(MediaSource(m))
         THEN CheckRemoteMedia(m)
         ELSE IF ~m.file_exists
              THEN Invalid("missing_file", "none", 0, 0, 0)
              ELSE Valid("none", 0, 0, 0)

MediaValidates(m) == ValidateMediaSource(m).ok

\* ---- specification: one call of _validate_media_source per behaviour ----
NoResult == [ok |-> FALSE, code |-> "pending", method |-> "none", status |-> 0,
             heads |-> 0, gets |-> 0]

IdleMedia == [media_url |-> "empty", storage_url |-> "empty", file_exists |-> FALSE,
              head |-> [kind |-> "response", status |-> 200],
              get |-> [kind |-> "response", status |-> 200]]

vmIdle == vm_media = IdleMedia /\ vm_result = NoResult

ValidateMedia ==
    /\ vm_result = NoResult
    /\ vm_result' = ValidateMediaSource(vm_media)
    /\ UNCHANGED vm_media


-----------------------------------------------------------------------------
(* Persistence store                                                       *)

Statuses == {"pending", "processing", "completed", "failed"}

NullError == [isnull |-> TRUE, code |-> "none"]
ErrorDetails(code) == [isnull |-> FALSE, code |-> code]

\* A row of table jobs as an earlier run of the application can have left it.
RowWithStatus(id, s) ==
    [exists |-> TRUE, status |-> s, created_at |-> id,
     progress_percent |-> CASE s = "pending" -> 0
                            [] s = "processing" -> 10
                            [] OTHER -> 100,
     error_details |-> IF s = "failed" THEN ErrorDetails("missing_file") ELSE NullError]

\* Media rows used for the jobs of a pass: an existing and a missing local file.
GoodLocal == [media_url |-> "absolute", storage_url |-> "empty", file_exists |-> TRUE,
              head |-> [kind |-> "response", status |-> 200],
              get |-> [kind |-> "response", status |-> 200]]
MissingLocal == [GoodLocal EXCEPT !.file_exists = FALSE]
\* A reachable remote URL.
GoodRemote == [media_url |-> "https", storage_url |-> "empty", file_exists |-> FALSE,
               head |-> [kind |-> "response", status |-> 200],
               get |-> [kind |-> "response", status |-> 200]]
PassMediaSamples == {GoodLocal, MissingLocal, GoodRemote}

SeqsUpTo(S, n) == UNION {[1..k -> S] : k \in 0..n}

\* The media lists of the jobs of a pass: no media, one local file (existing or
\* missing), and a missing local file followed by a reachable URL.
PassMediaLists ==
    {m \in SeqsUpTo(PassMediaSamples, MaxMedia) :
        m \in {<<>>, <<GoodLocal>>, <<MissingLocal>>, <<MissingLocal, GoodRemote>>}}

HasMedia(j) == Len(media[j]) > 0
AllMediaValid(j) == \A i \in 1..Len(media[j]) : MediaValidates(media[j][i])

\* Mapped attributes of the ORM class Job.
JobAttributes ==
    {"id", "title", "description", "status", "scheduled_time", "created_at",
     "media", "campaign"}

\* Keyword parameters job_context accepts, and those _process_single_job passes.
JobContextParams == {"media_id", "campaign_id", "log_dir", "extra_context"}
JobContextCallKwargs ==
    {"media_id", "campaign_id", "log_dir", "extra_context", "log_identifier"}

\* The exception the lines of _process_single_job before the validation raise for
\* a job that exists: line 115 reads job.progress_percent, line 120 calls
\* job_context(..., log_identifier=...).
PrologueError ==
    IF "progress_percent" \notin JobAttributes THEN "AttributeError"
    ELSE IF ~(JobContextCallKwargs \subseteq JobContextParams) THEN "TypeError"
    ELSE "none"

SweepStatuses_Mut == {"processing", "completed"}

\* Statuses the startup sweep resets.
SweepStatuses == {"processing"}

SelectStatuses_Mut == {"pending"}

\* Statuses the selection queues.
SelectStatuses == {"pending", "failed"}

\* ORDER BY created_at ASC
RECURSIVE SortByCreatedAt(_, _)
SortByCreatedAt(S, r) ==
    IF S = {} THEN <<>>
    ELSE LET first == CHOOSE j \in S : \A k \in S : r[j].created_at <= r[k].created_at
         IN <<first>> \o SortByCreatedAt(S \ {first}, r)

\* The UPDATE of the startup sweep.
Swept(r) ==
    [j \in JobIds |->
        IF r[j].exists /\ r[j].status \in SweepStatuses
        THEN [r[j] EXCEPT !.status = "pending"]
        ELSE r[j]]

\* The SELECT of the selection.
Selected(r) ==
    SortByCreatedAt({j \in JobIds : r[j].exists /\ r[j].status \in SelectStatuses}, r)

HandlerCatches_Mut(exc) == exc = "JobProcessingError"

\* except Exception (process_pending_jobs, line 82)
HandlerCatches(exc) == exc \in {"AttributeError", "TypeError", "JobProcessingError",
                                "OperationalError"}

ListingHandlerCatches_Mut(exc) == FALSE

\* except Exception (process_pending_jobs, line 70): the listing failed, return
ListingHandlerCatches(exc) == exc \in {"OperationalError", "AttributeError", "TypeError"}

CommittedAfterMark_Mut(row) == [row EXCEPT !.status = "processing"]

\* lines 114-117: job.status = "processing" changes the object of the session,
\* and session.flush() writes it inside the open transaction: the committed row,
\* which the sessions of other passes read, is as before
CommittedAfterMark(row) == row

NoSession == [job |-> 0, loaded |-> "none", status |-> "none", progress_percent |-> 0]

\* line 115: job.progress_percent = max(int(job.progress_percent or 0), 10)
ProgressFloor(progress) == Max2(progress, 10)

\* Creation times of the jobs: in the order of the ids, or in the reverse order.
CreatedAtOrders == {[j \in JobIds |-> j], [j \in JobIds |-> MaxJobs + 1 - j]}

\* The store as earlier runs left it, and the threads of `started` about to call
\* process_pending_jobs; the other threads are never started.
jpInitOf(started) ==
    /\ \E st \in [JobIds -> Statuses], c \in CreatedAtOrders :
          rows = [j \in JobIds |-> [RowWithStatus(j, st[j]) EXCEPT !.created_at = c[j]]]
    /\ media \in [JobIds -> PassMediaLists]
    /\ passNo = [p \in Passes |-> 0]
    /\ prevPass = [rows |-> rows, result |-> "none"]
    /\ pc = [p \in Passes |-> IF p \in started THEN "idle" ELSE "off"]
    /\ job_ids = [p \in Passes |-> <<>>]
    /\ idx = [p \in Passes |-> 1]
    /\ sess = [p \in Passes |-> NoSession]
    /\ outcomes = [p \in Passes |-> <<>>]
    /\ passResult = [p \in Passes |-> "running"]
    /\ startStatus = [p \in Passes |-> [j \in JobIds |-> "none"]]
    /\ sweptAt = [p \in Passes |-> {}]
    /\ deletes = 0

jpInit == jpInitOf({"job-reprocessor"})

jpIdle ==
    /\ rows = [j \in JobIds |-> RowWithStatus(j, "completed")]
    /\ media = [j \in JobIds |-> <<>>]
    /\ passNo = [p \in Passes |-> 0]
    /\ prevPass = [rows |-> rows, result |-> "none"]
    /\ pc = [p \in Passes |-> "done"]
    /\ job_ids = [p \in Passes |-> <<>>]
    /\ idx = [p \in Passes |-> 1]
    /\ sess = [p \in Passes |-> NoSession]
    /\ outcomes = [p \in Passes |-> <<>>]
    /\ passResult = [p \in Passes |-> "returned"]
    /\ startStatus = [p \in Passes |-> [j \in JobIds |-> "none"]]
    /\ sweptAt = [p \in Passes |-> {}]
    /\ deletes = 0

\* process_pending_jobs, lines 68-78, with _collect_jobs_for_reprocessing:
\* sweep, commit, select; an empty selection returns at once.
CollectJobsForReprocessing(p) ==
    /\ pc[p] = "idle"
    /\ LET swept == Swept(rows)
           ids == Selected(swept)
       IN /\ rows' = swept
          /\ job_ids' = [job_ids EXCEPT ![p] = ids]
          /\ sweptAt' = [sweptAt EXCEPT ![p] =
                            {j \in JobIds : rows[j].exists /\ rows[j].status \in SweepStatuses}]
          /\ pc' = [pc EXCEPT ![p] = IF ids = <<>> THEN "done" ELSE "loop"]
          /\ passResult' = [passResult EXCEPT ![p] =
                                IF ids = <<>> THEN "returned" ELSE "running"]
    /\ startStatus' = [startStatus EXCEPT ![p] =
                            [j \in JobIds |-> IF rows[j].exists THEN rows[j].status ELSE "none"]]
    /\ idx' = [idx EXCEPT ![p] = 1]
    /\ passNo' = [passNo EXCEPT ![p] = @ + 1]
    /\ UNCHANGED <<media, sess, outcomes, deletes, prevPass>>

\* process_pending_jobs, lines 70-72: the listing raises (the store is
\* unavailable), either at the sweep's UPDATE or, the sweep committed, at the SELECT.
CollectJobsFails(p) ==
    /\ pc[p] = "idle"
    /\ \E at \in {"update", "select"} :
          /\ rows' = IF at = "select" THEN Swept(rows) ELSE rows
          /\ sweptAt' = [sweptAt EXCEPT ![p] =
                            IF at = "select"
                            THEN {j \in JobIds : rows[j].exists /\ rows[j].status \in SweepStatuses}
                            ELSE {}]
    /\ startStatus' = [startStatus EXCEPT ![p] =
                            [j \in JobIds |-> IF rows[j].exists THEN rows[j].status ELSE "none"]]
    /\ pc' = [pc EXCEPT ![p] = "done"]
    /\ passResult' = [passResult EXCEPT ![p] =
                          IF ListingHandlerCatches("OperationalError")
                          THEN "listing_failed" ELSE "listing_raised"]
    /\ passNo' = [passNo EXCEPT ![p] = @ + 1]
    /\ UNCHANGED <<media, job_ids, idx, sess, outcomes, deletes, prevPass>>

JobIsNone_Mut(row) == FALSE

\* lines 109-110: session.get(Job, job_id) returns None for a deleted row
JobIsNone(row) == ~row.exists

\* _process_single_job, lines 108-114: open the session, load the job; a job
\* that disappeared is skipped, otherwise the loaded object is marked processing
\* (an in-memory change of the session, not flushed yet).
ProcessSingleJobLoad(p) ==
    /\ pc[p] = "loop"
    /\ idx[p] <= Len(job_ids[p])
    /\ sess[p] = NoSession
    /\ LET j == job_ids[p][idx[p]] IN
          IF JobIsNone(rows[j])
          THEN /\ outcomes' = [outcomes EXCEPT ![p] = Append(@, "skipped")]
               /\ idx' = [idx EXCEPT ![p] = @ + 1]
               /\ UNCHANGED sess
          ELSE /\ sess' = [sess EXCEPT ![p] =
                              [job |-> j, loaded |-> rows[j].status, status |-> "processing",
                               progress_percent |->
                                   IF PrologueError = "AttributeError"
                                   THEN rows[j].progress_percent
                                   ELSE ProgressFloor(rows[j].progress_percent)]]
               /\ UNCHANGED <<outcomes, idx>>
    /\ rows' = [j \in JobIds |->
                   IF sess'[p] # NoSession /\ sess'[p].job = j
                   THEN CommittedAfterMark(rows[j]) ELSE rows[j]]
    /\ UNCHANGED <<media, pc, job_ids, passResult, startStatus, sweptAt, deletes,
                   passNo, prevPass>>

\* _process_single_job, line 115 (or 120): the prologue raises; the session is
\* closed without a flush or commit, so the in-memory mark is discarded and the
\* row keeps its committed values; process_pending_jobs (lines 82-83) catches
\* and logs the exception and goes on with the next job.
ProcessSingleJobRaises(p) ==
    /\ pc[p] = "loop"
    /\ sess[p] # NoSession
    /\ PrologueError # "none"
    /\ sess' = [sess EXCEPT ![p] = NoSession]
    /\ outcomes' = [outcomes EXCEPT ![p] = Append(@, PrologueError)]
    /\ IF HandlerCatches(PrologueError)
       THEN /\ idx' = [idx EXCEPT ![p] = @ + 1]
            /\ UNCHANGED <<pc, passResult>>
       ELSE /\ pc' = [pc EXCEPT ![p] = "done"]
            /\ passResult' = [passResult EXCEPT ![p] = "raised"]
            /\ UNCHANGED idx
    /\ UNCHANGED <<rows, media, job_ids, startStatus, sweptAt, deletes, passNo, prevPass>>

\* process_pending_jobs: the for loop is exhausted and the method returns.
FinishPass(p) ==
    /\ pc[p] = "loop"
    /\ sess[p] = NoSession
    /\ idx[p] > Len(job_ids[p])
    /\ pc' = [pc EXCEPT ![p] = "done"]
    /\ passResult' = [passResult EXCEPT ![p] = "returned"]
    /\ UNCHANGED <<rows, media, job_ids, idx, sess, outcomes, startStatus, sweptAt, deletes,
                   passNo, prevPass>>

\* A CRUD operation of the admin console deletes a job (and, by cascade, its media).
DeleteJob(j) ==
    /\ deletes < MaxDeletes
    /\ rows[j].exists
    /\ rows' = [rows EXCEPT ![j].exists = FALSE]
    /\ media' = [media EXCEPT ![j] = <<>>]
    /\ deletes' = deletes + 1
    /\ UNCHANGED <<pc, job_ids, idx, sess, outcomes, passResult, startStatus, sweptAt,
                   passNo, prevPass>>

PassDone(p) == pc[p] = "done"

\* The application starts again and _schedule_job_reprocessing starts a new
\* job-reprocessor thread: process_pending_jobs is called once more.
ScheduleJobReprocessing(p) ==
    /\ PassDone(p)
    /\ passNo[p] < MaxPasses
    /\ pc' = [pc EXCEPT ![p] = "idle"]
    /\ job_ids' = [job_ids EXCEPT ![p] = <<>>]
    /\ idx' = [idx EXCEPT ![p] = 1]
    /\ outcomes' = [outcomes EXCEPT ![p] = <<>>]
    /\ passResult' = [passResult EXCEPT ![p] = "running"]
    /\ startStatus' = [startStatus EXCEPT ![p] = [j \in JobIds |-> "none"]]
    /\ sweptAt' = [sweptAt EXCEPT ![p] = {}]
    /\ prevPass' = [rows |-> rows, result |-> passResult[p]]
    /\ UNCHANGED <<rows, media, sess, deletes, passNo>>

-----------------------------------------------------------------------------
(* request_with_backoff                                                    *)

MaxAttemptsArg == 3
MaxBackoffArg == 3
MaxFails == 3

\* Defaults of AppSettings.trending_request_backoff (seconds as integers).
SettingsMaxAttempts == 5
SettingsMinSeconds == 1
SettingsMaxSeconds == 30


RECURSIVE Pow2(_)
Pow2(n) == IF n <= 0 THEN 1 ELSE 2 * Pow2(n - 1)

\* An optional argument: None, or a value.
NoneArg == [given |-> FALSE, value |-> 0]
Given(v) == [given |-> TRUE, value |-> v]
Optional(S) == {NoneArg} \cup {Given(v) : v \in S}

\* Outcomes of one call of method(url): a response, or a RequestException.
NonRetriableErrors == {"InvalidURL", "InvalidSchema", "MissingSchema", "URLRequired"}
Response(s) == [kind |-> "response", status |-> s]
Raised(k) == [kind |-> k, status |-> 0]

FailureOutcomes ==
    {Response(429), Response(500), Response(404),
     Raised("ConnectionError"), Raised("HTTPErrorNoResponse"), Raised("MissingSchema")}
ThenOutcomes == {Response(200), Response(404), Raised("ConnectionError")}

\* The endpoint answers its first `fails` calls with `failure`, later calls with `then`.
Endpoints == [fails : 0..MaxFails, failure : FailureOutcomes, then : ThenOutcomes]

CallOutcome(e, n) == IF n <= e.fails THEN e.failure ELSE e.then

\* method(url) followed by response.raise_for_status(): does the try block raise?
AttemptRaises(o) == o.kind # "response" \/ RaiseForStatus(o.status)

IsRetriableError_Mut(o) == TRUE

\* _is_retriable_error
IsRetriableError(o) ==
    IF o.kind \in NonRetriableErrors THEN FALSE
    ELSE IF o.kind = "HTTPErrorNoResponse" THEN TRUE
    ELSE IF o.kind = "response" THEN o.status = 429 \/ o.status >= 500
    ELSE TRUE

\* attempts_limit = max(1, max_attempts or settings.max_attempts)
AttemptsLimit(a) ==
    Max2(1, IF a.max_attempts.given /\ a.max_attempts.value # 0
            THEN a.max_attempts.value ELSE SettingsMaxAttempts)

\* backoff_min = max(0.0, min_backoff if min_backoff is not None else settings.min_seconds)
BackoffMin(a) ==
    Max2(0, IF a.min_backoff.given THEN a.min_backoff.value ELSE SettingsMinSeconds)

\* backoff_max = max(backoff_min if backoff_min > 0 else 0.0, backoff_max)
BackoffMax(a) ==
    Max2(IF BackoffMin(a) > 0 THEN BackoffMin(a) ELSE 0,
         IF a.max_backoff.given THEN a.max_backoff.value ELSE SettingsMaxSeconds)

SleepTime_Mut(a, attempt) ==
    IF BackoffMin(a) > 0 THEN BackoffMin(a) * Pow2(attempt - 1) ELSE 0

\* sleep_time = min(backoff_max, backoff_min * 2 ** (attempt - 1)) if backoff_min > 0 else 0
SleepTime(a, attempt) ==
    IF BackoffMin(a) > 0
    THEN Min2(BackoffMax(a), BackoffMin(a) * Pow2(attempt - 1))
    ELSE 0

AttemptsExhausted_Mut(a, attempt) == attempt > AttemptsLimit(a)

\* if attempt >= attempts_limit: raise
AttemptsExhausted(a, attempt) == attempt >= AttemptsLimit(a)

rbInit ==
    /\ rb_args \in [max_attempts : Optional(-1..MaxAttemptsArg),
                    min_backoff : Optional(0..MaxBackoffArg),
                    max_backoff : Optional(0..MaxBackoffArg)]
    /\ rb_endpoint \in Endpoints
    /\ rb_attempt = 1
    /\ rb_requests = 0
    /\ rb_sleeps = <<>>
    /\ rb_result = "running"
    /\ rb_error = 0

rbIdle ==
    /\ rb_args = [max_attempts |-> NoneArg, min_backoff |-> NoneArg, max_backoff |-> NoneArg]
    /\ rb_endpoint = [fails |-> 0, failure |-> Response(500), then |-> Response(200)]
    /\ rb_attempt = 1
    /\ rb_requests = 0
    /\ rb_sleeps = <<>>
    /\ rb_result = "returned"
    /\ rb_error = 0

\* lines 363-374: the request succeeds and the response is returned
RequestSucceeds ==
    /\ rb_result = "running"
    /\ ~AttemptRaises(CallOutcome(rb_endpoint, rb_requests + 1))
    /\ rb_requests' = rb_requests + 1
    /\ rb_result' = "returned"
    /\ UNCHANGED <<rb_args, rb_endpoint, rb_attempt, rb_sleeps, rb_error>>

\* lines 375-388: the error is not retriable and is raised at once
RequestFailsFatally ==
    /\ rb_result = "running"
    /\ LET o == CallOutcome(rb_endpoint, rb_requests + 1) IN
          AttemptRaises(o) /\ ~IsRetriableError(o)
    /\ rb_requests' = rb_requests + 1
    /\ rb_result' = "raised"
    /\ rb_error' = rb_attempt
    /\ UNCHANGED <<rb_args, rb_endpoint, rb_attempt, rb_sleeps>>

\* lines 390-398: the error is retriable and no attempt is left
RequestFailsExhausted ==
    /\ rb_result = "running"
    /\ LET o == CallOutcome(rb_endpoint, rb_requests + 1) IN
          AttemptRaises(o) /\ IsRetriableError(o)
    /\ AttemptsExhausted(rb_args, rb_attempt)
    /\ rb_requests' = rb_requests + 1
    /\ rb_result' = "raised"
    /\ rb_error' = rb_attempt
    /\ UNCHANGED <<rb_args, rb_endpoint, rb_attempt, rb_sleeps>>

\* lines 400-421: the error is retriable and attempts are left: time.sleep is
\* called when the delay is positive, then the next attempt starts
RequestFailsAndRetries ==
    /\ rb_result = "running"
    /\ LET o == CallOutcome(rb_endpoint, rb_requests + 1) IN
          AttemptRaises(o) /\ IsRetriableError(o)
    /\ ~AttemptsExhausted(rb_args, rb_attempt)
    /\ rb_requests' = rb_requests + 1
    /\ rb_sleeps' = IF SleepTime(rb_args, rb_attempt) > 0
                    THEN Append(rb_sleeps, SleepTime(rb_args, rb_attempt))
                    ELSE rb_sleeps
    /\ rb_attempt' = rb_attempt + 1
    /\ UNCHANGED <<rb_args, rb_endpoint, rb_result, rb_error>>

-----------------------------------------------------------------------------
(* TrendingVideoCreator.generate_trend_video (app/backend/services)        *)

MaxRuns == 2

Tracks == {"track-a", "track-b"}

\* _derive_output_name: the destination name, which the storage service uses as key.
OutputName(track) == track

NoCall == [status |-> "none", exc |-> "none", key |-> "none", job_media_id |-> 0]

gvInit ==
    /\ gv_pc = "idle"
    /\ gv_cfg = [has_session |-> FALSE, has_output_path |-> FALSE, track |-> "track-a",
                 delete_fails |-> FALSE]
    /\ gv_upload = "none"
    /\ gv_media_id = 0
    /\ gv_exc = "none"
    /\ gv_result = NoCall
    /\ gv_runs = 0
    /\ storage = {}
    /\ temp_dirs = {}
    /\ job_media = {}
    /\ local_copy = {}
    /\ rollback_log = {}

gvIdle == gvInit

\* A stage raised: the exception leaves the with blocks of the stages.
StageFails(stage) ==
    /\ gv_exc' = stage
    /\ gv_pc' = "cleanup"

AfterUpload_Mut(cfg) == "record_job_media"

\* The stage that follows a successful upload.
AfterUpload(cfg) ==
    IF cfg.has_session THEN "record_job_media"
    ELSE IF cfg.has_output_path THEN "persist_local_copy"
    ELSE "cleanup"

\* lines 661-702: resolve caption and names, open the job log, acquire the
\* worker's temporary directory.
StartGenerate ==
    /\ gv_pc = "idle"
    /\ gv_runs < MaxRuns
    /\ \E session \in BOOLEAN, out \in BOOLEAN, track \in Tracks, delete_fails \in BOOLEAN :
          gv_cfg' = [has_session |-> session, has_output_path |-> out, track |-> track,
                     delete_fails |-> delete_fails]
    /\ gv_runs' = gv_runs + 1
    /\ temp_dirs' = temp_dirs \cup {gv_runs + 1}
    /\ gv_upload' = "none"
    /\ gv_media_id' = 0
    /\ gv_exc' = "none"
    /\ gv_pc' = "download_preview"
    /\ UNCHANGED <<gv_result, storage, job_media, local_copy, rollback_log>>

\* lines 704-711
DownloadPreview ==
    /\ gv_pc = "download_preview"
    /\ \E ok \in BOOLEAN :
          IF ok THEN gv_pc' = "render_video" /\ UNCHANGED gv_exc
          ELSE StageFails("download_preview")
    /\ UNCHANGED <<gv_cfg, gv_upload, gv_media_id, gv_result, gv_runs, storage, temp_dirs,
                   job_media, local_copy, rollback_log>>

\* lines 713-723
RenderVideo ==
    /\ gv_pc = "render_video"
    /\ \E ok \in BOOLEAN :
          IF ok THEN gv_pc' = "upload_video" /\ UNCHANGED gv_exc
          ELSE StageFails("render_video")
    /\ UNCHANGED <<gv_cfg, gv_upload, gv_media_id, gv_result, gv_runs, storage, temp_dirs,
                   job_media, local_copy, rollback_log>>

\* lines 725-736
UploadVideo ==
    /\ gv_pc = "upload_video"
    /\ \E ok \in BOOLEAN :
          IF ok
          THEN /\ storage' = storage \cup {OutputName(gv_cfg.track)}
               /\ gv_upload' = OutputName(gv_cfg.track)
               /\ gv_pc' = AfterUpload(gv_cfg)
               /\ UNCHANGED gv_exc
          ELSE /\ StageFails("upload_video")
               /\ UNCHANGED <<storage, gv_upload>>
    /\ UNCHANGED <<gv_cfg, gv_media_id, gv_result, gv_runs, temp_dirs, job_media, local_copy,
                   rollback_log>>

\* Storage keys delete_object is called on when a stage after the upload fails.
\* generate_trend_video has no handler around the stages after the upload.
RollbackKeys(upload) == {}

\* lines 738-753: add the JobMedia row, flush, commit; the id of the row (the
\* number of the call stands for it) becomes job_media_id
RecordJobMedia ==
    /\ gv_pc = "record_job_media"
    /\ \E ok \in BOOLEAN :
          IF ok
          THEN /\ job_media' = job_media \cup {gv_upload}
               /\ gv_media_id' = gv_runs
               /\ gv_pc' = IF gv_cfg.has_output_path THEN "persist_local_copy" ELSE "cleanup"
               /\ UNCHANGED <<gv_exc, storage, rollback_log>>
          ELSE /\ StageFails("record_job_media")
               /\ rollback_log' = rollback_log \cup RollbackKeys(gv_upload)
               /\ storage' = IF gv_cfg.delete_fails THEN storage
                              ELSE storage \ RollbackKeys(gv_upload)
               /\ UNCHANGED <<job_media, gv_media_id>>
    /\ UNCHANGED <<gv_cfg, gv_upload, gv_result, gv_runs, temp_dirs, local_copy>>

\* lines 755-769
PersistLocalCopy ==
    /\ gv_pc = "persist_local_copy"
    /\ \E ok \in BOOLEAN :
          IF ok
          THEN /\ local_copy' = local_copy \cup {gv_upload}
               /\ gv_pc' = "cleanup"
               /\ UNCHANGED <<gv_exc, storage, rollback_log>>
          ELSE /\ StageFails("persist_local_copy")
               /\ rollback_log' = rollback_log \cup RollbackKeys(gv_upload)
               /\ storage' = IF gv_cfg.delete_fails THEN storage
                              ELSE storage \ RollbackKeys(gv_upload)
               /\ UNCHANGED local_copy
    /\ UNCHANGED <<gv_cfg, gv_upload, gv_media_id, gv_result, gv_runs, temp_dirs, job_media>>

TemporaryDirectoryExit_Mut(dirs, dir, exc) == IF exc = "none" THEN dirs \ {dir} ELSE dirs

\* Worker.temporary_directory, lines 39-42: try: yield path / finally: rmtree(path),
\* whether the body of the with block returned or raised exc
TemporaryDirectoryExit(dirs, dir, exc) == dirs \ {dir}

\* Worker.temporary_directory, lines 41-42 (finally: rmtree), then lines 771-801:
\* the call returns the GeneratedMedia or the exception reaches the caller.
ExitGenerate ==
    /\ gv_pc = "cleanup"
    /\ temp_dirs' = TemporaryDirectoryExit(temp_dirs, gv_runs, gv_exc)
    /\ gv_result' = [status |-> IF gv_exc = "none" THEN "returned" ELSE "raised",
                     exc |-> gv_exc, key |-> gv_upload,
                     job_media_id |-> IF gv_exc = "none" THEN gv_media_id ELSE 0]
    /\ gv_pc' = "idle"
    /\ UNCHANGED <<gv_cfg, gv_upload, gv_media_id, gv_exc, gv_runs, storage, job_media,
                   local_copy, rollback_log>>

\* TrendingVideoCreator.generate_trend_video of app/services/trending_video.py:
\* lines 243-247 read the names job_ctx and nullcontext, which the module does not
\* define, so the call raises NameError before it acquires a directory or uploads.
LegacyGenerate ==
    /\ gv_pc = "idle"
    /\ gv_runs < MaxRuns
    /\ gv_runs' = gv_runs + 1
    /\ gv_result' = [status |-> "raised", exc |-> "NameError", key |-> "none",
                     job_media_id |-> 0]
    /\ UNCHANGED <<gv_pc, gv_cfg, gv_upload, gv_media_id, gv_exc, storage, temp_dirs, job_media,
                   local_copy, rollback_log>>

-----------------------------------------------------------------------------
(* PreviewDownloadManager                                                  *)

MaxTasks == 3
MaxConcurrencyArg == 2
MaxSyncCalls == 2

Tasks == 1..MaxTasks
SyncCalls == 1..MaxSyncCalls

NoSyncCall == [loop_running |-> FALSE, pc |-> "idle", transfers |-> 0]

dlInit ==
    /\ max_concurrency \in 1..MaxConcurrencyArg
    /\ sem_value = max_concurrency
    /\ sem_waiters = <<>>
    /\ dl_pc = [t \in Tasks |-> "idle"]
    /\ sync = [c \in SyncCalls |-> NoSyncCall]

dlIdle ==
    /\ max_concurrency = 1
    /\ sem_value = 1
    /\ sem_waiters = <<>>
    /\ dl_pc = [t \in Tasks |-> "done"]
    /\ sync = [c \in SyncCalls |-> NoSyncCall]

SemLocked_Mut(value, waiters) == value < 0

\* asyncio.Semaphore.locked(): no permit is free, or a task is already waiting
SemLocked(value, waiters) == value = 0 \/ waiters # <<>>

\* download(), line 213: async with self._semaphore - a free permit is taken at
\* once, otherwise the call queues on the semaphore
DownloadAcquire(t) ==
    /\ dl_pc[t] = "idle"
    /\ \A c \in SyncCalls : sync[c].pc # "inflight"
    /\ IF ~SemLocked(sem_value, sem_waiters)
       THEN /\ sem_value' = sem_value - 1
            /\ dl_pc' = [dl_pc EXCEPT ![t] = "inflight"]
            /\ UNCHANGED sem_waiters
       ELSE /\ sem_waiters' = Append(sem_waiters, t)
            /\ dl_pc' = [dl_pc EXCEPT ![t] = "waiting"]
            /\ UNCHANGED sem_value
    /\ UNCHANGED <<max_concurrency, sync>>

\* a woken waiter resumes and starts run_in_executor (lines 214-220)
DownloadResume(t) ==
    /\ dl_pc[t] = "woken"
    /\ dl_pc' = [dl_pc EXCEPT ![t] = "inflight"]
    /\ UNCHANGED <<sem_value, sem_waiters, max_concurrency, sync>>

ExitReleases_Mut(how) == how = "done"

\* line 213, async with self._semaphore: __aexit__ calls release() whether the
\* body returned or raised
ExitReleases(how) == TRUE

\* _download_preview_to_path returns or raises; __aexit__ releases the permit:
\* asyncio.Semaphore.release() hands it to the first waiter if there is one
DownloadEnds(t) ==
    /\ dl_pc[t] = "inflight"
    /\ \E how \in {"done", "failed"} :
          IF ~ExitReleases(how)
          THEN /\ dl_pc' = [dl_pc EXCEPT ![t] = how]
               /\ UNCHANGED <<sem_value, sem_waiters>>
          ELSE IF sem_waiters # <<>>
          THEN /\ dl_pc' = [dl_pc EXCEPT ![t] = how, ![Head(sem_waiters)] = "woken"]
               /\ sem_waiters' = Tail(sem_waiters)
               /\ UNCHANGED sem_value
          ELSE /\ dl_pc' = [dl_pc EXCEPT ![t] = how]
               /\ sem_value' = sem_value + 1
               /\ UNCHANGED sem_waiters
    /\ UNCHANGED <<max_concurrency, sync>>

LoopRunning_Mut(loop_running) == FALSE

\* download_sync, lines 225-229: asyncio.get_running_loop() returns the loop
\* running on the calling thread, and raises RuntimeError when there is none
LoopRunning(loop_running) == loop_running

\* download_sync called on a thread whose event loop is running (from a
\* coroutine or callback of the loop): lines 231-234 raise RuntimeError
DownloadSyncRefused(c) ==
    /\ sync[c].pc = "idle"
    /\ \E loop_running \in BOOLEAN :
          /\ LoopRunning(loop_running)
          /\ sync' = [sync EXCEPT ![c] = [loop_running |-> loop_running,
                                          pc |-> "runtime_error", transfers |-> 0]]
    /\ UNCHANGED <<sem_value, sem_waiters, max_concurrency, dl_pc>>

\* download_sync called with no running loop (line 229): asyncio.run starts a
\* temporary loop that runs download(), which takes a permit (line 213) and
\* starts the transfer. The caller blocks, and no download of another loop is
\* active on the manager. With a running loop the call gets here only if the
\* guard lets it through.
DownloadSyncStarts(c) ==
    /\ sync[c].pc = "idle"
    /\ \A d \in SyncCalls : sync[d].pc # "inflight"
    /\ \A t \in Tasks : dl_pc[t] \in {"idle", "done", "failed"}
    /\ ~SemLocked(sem_value, sem_waiters)
    /\ \E loop_running \in BOOLEAN :
          /\ ~LoopRunning(loop_running)
          /\ sync' = [sync EXCEPT ![c] = [loop_running |-> loop_running,
                                          pc |-> "inflight", transfers |-> 1]]
    /\ sem_value' = sem_value - 1
    /\ UNCHANGED <<sem_waiters, max_concurrency, dl_pc>>

\* the transfer of a download_sync call returns or raises: the permit is
\* released, the temporary loop is closed, and asyncio.run returns the
\* destination path or raises the error of the transfer
DownloadSyncEnds(c) ==
    /\ sync[c].pc = "inflight"
    /\ \E how \in {"returned", "download_error"} :
          sync' = [sync EXCEPT ![c].pc = how]
    /\ sem_value' = sem_value + 1
    /\ UNCHANGED <<sem_waiters, max_concurrency, dl_pc>>

InFlight == {t \in Tasks : dl_pc[t] = "inflight"}

-----------------------------------------------------------------------------
(* Properties of the reprocessing pass                                     *)

Range(f) == {f[i] : i \in DOMAIN f}

\* The calls of _process_single_job of pass p that have ended, for a job that
\* existed when its turn came: positions in job_ids[p].
EndedRuns(p) == {i \in 1..Len(outcomes[p]) : outcomes[p][i] # "skipped"}

ErrorCodes == {"missing_media", "missing_url", "missing_file", "network_error",
               "bad_status", "unexpected", "unknown"}

\* C1 - completion invariant: once the per-job run of a job has ended, the job is
\* completed with progress_percent = 100 and error_details = null if and only if
\* it has media and every attached media item validates.
C1_CompletionInvariant ==
    \A p \in Passes : \A i \in EndedRuns(p) :
        LET j == job_ids[p][i] IN
        rows[j].exists =>
            ((/\ rows[j].status = "completed"
              /\ rows[j].progress_percent = 100
              /\ rows[j].error_details.isnull)
             <=> (HasMedia(j) /\ AllMediaValid(j)))

\* C2 - failure invariant: once the per-job run of a job has ended, a job with a
\* media item that fails validation is failed with progress_percent = 100 and a
\* non-null error_details carrying a code.
C2_FailureInvariant ==
    \A p \in Passes : \A i \in EndedRuns(p) :
        LET j == job_ids[p][i] IN
        (rows[j].exists /\ HasMedia(j) /\ ~AllMediaValid(j)) =>
            /\ rows[j].status = "failed"
            /\ rows[j].progress_percent = 100
            /\ ~rows[j].error_details.isnull
            /\ rows[j].error_details.code \in ErrorCodes

\* C3 - crash recovery: when a pass has returned, every job that was processing
\* when it started was reset by the sweep, was selected in that pass, and is
\* completed if all of its media validate.
C3_CrashRecovery ==
    \A p \in Passes : \A j \in JobIds :
        (PassDone(p) /\ passResult[p] = "returned"
            /\ startStatus[p][j] = "processing" /\ rows[j].exists) =>
            /\ j \in sweptAt[p]
            /\ j \in Range(job_ids[p])
            /\ (HasMedia(j) /\ AllMediaValid(j)) => rows[j].status = "completed"

\* pending|failed -> processing -> completed|failed, in one or more steps
ForwardPath(a, b) ==
    \/ a \in {"pending", "failed"} /\ b \in {"processing", "completed", "failed"}
    \/ a = "processing" /\ b \in {"completed", "failed"}

LifecycleStep ==
    /\ \A j \in JobIds :
          (rows[j].exists /\ rows'[j].exists /\ rows[j].status # rows'[j].status) =>
              \/ ForwardPath(rows[j].status, rows'[j].status)
              \/ /\ rows[j].status = "processing"
                 /\ rows'[j].status = "pending"
                 /\ \E p \in Passes :
                       pc[p] = "idle" /\ pc'[p] # "idle" /\ outcomes[p] = <<>>
    /\ \A p \in Passes :
          (sess'[p] # sess[p] /\ sess'[p] # NoSession) =>
              ForwardPath(sess'[p].loaded, sess'[p].status)

\* C4 - lifecycle: the committed status of a job, and the status of the object a
\* per-job session holds, move only forward along pending|failed -> processing ->
\* completed|failed; the one backward step processing -> pending is taken by the
\* startup sweep of a pass, before that pass has run any job.
C4_Lifecycle == [][LifecycleStep]_vars

C4_Witness ==
    \E p \in Passes :
        /\ sweptAt[p] # {}
        /\ sess[p] # NoSession
        /\ sess[p].status = "processing"
        /\ sess[p].loaded = "failed"

IsolationInv ==
    \A p \in Passes :
        /\ passResult[p] # "raised"
        /\ pc[p] = "loop" => Len(outcomes[p]) = idx[p] - 1
        /\ (PassDone(p) /\ passResult[p] = "returned") =>
              Len(outcomes[p]) = Len(job_ids[p])

IsolationStep ==
    (\E p \in Passes : Len(outcomes'[p]) > Len(outcomes[p])) => rows' = rows

\* C5 - failure isolation: no exception of a per-job run leaves
\* process_pending_jobs; when the pass returns, _process_single_job has been
\* called for every selected job; and the step in which a per-job run ends with an
\* exception changes no committed row.
C5_FailureIsolation == []IsolationInv /\ [][IsolationStep]_vars

C5_Witness ==
    \E p \in Passes :
        /\ PassDone(p)
        /\ passResult[p] = "returned"
        /\ Len(outcomes[p]) >= 2
        /\ outcomes[p][1] \in {"AttributeError", "TypeError"}
        /\ outcomes[p][2] \in {"AttributeError", "TypeError"}

-----------------------------------------------------------------------------
(* Properties of the media validation                                      *)

\* C6 - HEAD->GET fallback: a remote media URL whose HEAD probe is answered with
\* 405 or 501 is validated by exactly one GET, and the outcome follows the GET's
\* status: valid below 400, bad_status from 400 on.
C6_HeadGetFallback ==
    (/\ vm_result # NoResult
     /\ IsRemote(MediaSource(vm_media))
     /\ vm_media.head.kind = "response"
     /\ vm_media.head.status \in {405, 501}) =>
        /\ vm_result.gets = 1
        /\ (vm_media.get.kind = "response" /\ vm_media.get.status < 400) => vm_result.ok
        /\ (vm_media.get.kind = "response" /\ vm_media.get.status >= 400) =>
              (vm_result.code = "bad_status" /\ vm_result.method = "GET")

-----------------------------------------------------------------------------
(* Properties of request_with_backoff                                      *)

\* The backoff values the caller passed, or the configured ones.
CallerMinBackoff ==
    IF rb_args.min_backoff.given THEN rb_args.min_backoff.value ELSE SettingsMinSeconds
CallerMaxBackoff ==
    IF rb_args.max_backoff.given THEN rb_args.max_backoff.value ELSE SettingsMaxSeconds

RetriableFailure(o) == AttemptRaises(o) /\ IsRetriableError(o)

\* The call has ended for an endpoint that fails retryably N times and then
\* succeeds, with max_attempts = N + 1.
FlakyThenOk ==
    /\ rb_result # "running"
    /\ RetriableFailure(rb_endpoint.failure)
    /\ rb_endpoint.then = Response(200)
    /\ rb_args.max_attempts = Given(rb_endpoint.fails + 1)

\* C7 as stated - retry success bound: the call returns on attempt N + 1 after
\* exactly N sleeps, the k-th of min(max_backoff, min_backoff * 2^(k-1)) seconds,
\* non-decreasing and never above max_backoff.
C7_RetrySuccessBound ==
    FlakyThenOk =>
        LET N == rb_endpoint.fails IN
        /\ rb_result = "returned"
        /\ rb_requests = N + 1
        /\ Len(rb_sleeps) = N
        /\ \A k \in 1..N :
              /\ rb_sleeps[k] = Min2(CallerMaxBackoff, CallerMinBackoff * Pow2(k - 1))
              /\ rb_sleeps[k] <= CallerMaxBackoff
              /\ k > 1 => rb_sleeps[k - 1] <= rb_sleeps[k]

\* C7 amended - the call returns on attempt N + 1; with m = max(0, min_backoff)
\* and M = max(m, max_backoff) it sleeps exactly N times when m > 0, the k-th
\* time min(M, m * 2^(k-1)) seconds, non-decreasing and never above M, and it
\* does not sleep at all when m = 0.
C7_RetrySuccessBoundAmended ==
    FlakyThenOk =>
        LET N == rb_endpoint.fails
            m == IF CallerMinBackoff > 0 THEN CallerMinBackoff ELSE 0
            M == IF CallerMaxBackoff > m THEN CallerMaxBackoff ELSE m
        IN
        /\ rb_result = "returned"
        /\ rb_requests = N + 1
        /\ rb_attempt = N + 1
        /\ IF m > 0
           THEN /\ Len(rb_sleeps) = N
                /\ \A k \in 1..N :
                      /\ rb_sleeps[k] = (IF m * Pow2(k - 1) < M THEN m * Pow2(k - 1) ELSE M)
                      /\ rb_sleeps[k] <= M
                      /\ k > 1 => rb_sleeps[k - 1] <= rb_sleeps[k]
           ELSE rb_sleeps = <<>>

\* two failures, the second delay capped
C7_Witness ==
    /\ FlakyThenOk
    /\ rb_result = "returned"
    /\ rb_endpoint.fails = 2
    /\ Len(rb_sleeps) = 2
    /\ rb_sleeps[2] < CallerMinBackoff * 2
    /\ rb_sleeps[1] < rb_sleeps[2]

\* C8 - retry exhaustion bound: for an endpoint whose first N calls fail
\* retryably, the call with max_attempts = N (N >= 1) makes exactly N requests
\* and raises the error of attempt N.
C8_RetryExhaustion ==
    (/\ rb_result # "running"
     /\ rb_args.max_attempts.given
     /\ rb_args.max_attempts.value >= 1
     /\ rb_endpoint.fails >= rb_args.max_attempts.value
     /\ RetriableFailure(rb_endpoint.failure)) =>
        /\ rb_result = "raised"
        /\ rb_requests = rb_args.max_attempts.value
        /\ rb_error = rb_args.max_attempts.value
        /\ rb_attempt = rb_args.max_attempts.value

C8_Witness ==
    /\ rb_result = "raised"
    /\ rb_args.max_attempts = Given(3)
    /\ rb_endpoint.fails = 3
    /\ rb_endpoint.then = Response(200)
    /\ RetriableFailure(rb_endpoint.failure)
    /\ rb_requests = 3

-----------------------------------------------------------------------------
(* Properties of the video pipeline                                        *)

\* C9 - rollback on partial failure: when generate_trend_video has raised after
\* a successful upload, the uploaded object is no longer in storage and the
\* exception that reached the caller is that of the failed stage.
C9_RollbackOnPartialFailure ==
    (gv_pc = "idle" /\ gv_result.status = "raised" /\ gv_result.key # "none") =>
        /\ gv_result.key \notin storage
        /\ gv_result.exc \in {"record_job_media", "persist_local_copy"}

-----------------------------------------------------------------------------
(* Properties of the download manager                                      *)

\* C10 - download concurrency bound: the number of downloads in flight never
\* exceeds max_concurrency.
C10_ConcurrencyBound == Cardinality(InFlight) <= max_concurrency

\* three downloads issued with max_concurrency = 2: two in flight, one queued
C10_Witness ==
    /\ max_concurrency = 2
    /\ Cardinality(InFlight) = 2
    /\ \E t \in Tasks : dl_pc[t] = "waiting"

-----------------------------------------------------------------------------
(* Further properties of the reprocessing pass                             *)

\* The first media item of job j that fails validation (0: none fails).
FirstFailure(j) ==
    IF AllMediaValid(j) THEN 0
    ELSE CHOOSE k \in 1..Len(media[j]) :
            /\ ~MediaValidates(media[j][k])
            /\ \A i \in 1..(k - 1) : MediaValidates(media[j][i])

\* C11 - first failure wins: once the per-job run of a job has ended, a job with
\* several media items, one of them failing, is failed with progress_percent = 100 and error_details
\* carrying the code of its first failing item, in stored order (missing_file for
\* a missing local file followed by a reachable URL).
C11_FirstFailureWins ==
    \A p \in Passes : \A i \in EndedRuns(p) :
        LET j == job_ids[p][i] IN
        (rows[j].exists /\ Len(media[j]) >= 2 /\ FirstFailure(j) # 0) =>
            /\ rows[j].status = "failed"
            /\ rows[j].progress_percent = 100
            /\ rows[j].error_details =
                   ErrorDetails(ValidateMediaSource(media[j][FirstFailure(j)]).code)

\* C12 - idempotent re-validation: when process_pending_jobs has returned twice
\* in a row and no job was deleted, every job that was not completed before has
\* a terminal status, the same after the second pass as after the first, with the
\* same error code.
C12_IdempotentRevalidation ==
    \A p \in Passes :
        (/\ PassDone(p) /\ passResult[p] = "returned"
         /\ passNo[p] >= 2 /\ prevPass.result = "returned"
         /\ deletes = 0) =>
            \A j \in Range(job_ids[p]) :
                /\ rows[j].status \in {"completed", "failed"}
                /\ rows[j].status = prevPass.rows[j].status
                /\ rows[j].error_details = prevPass.rows[j].error_details

\* C13 - selection and order: the jobs a pass queues are exactly those that were
\* pending, failed or (reset by the sweep) processing when it started; they are
\* queued in strictly ascending creation time, so each at most once; and they are
\* run one at a time in that order: the run of the job at position idx starts
\* only when the runs of all earlier positions have ended.
C13_SelectionAndOrder ==
    \A p \in Passes :
        (pc[p] \in {"loop", "done"} /\ passResult[p] \in {"running", "returned"}) =>
            /\ Range(job_ids[p]) =
                   {j \in JobIds : startStatus[p][j] \in {"pending", "failed", "processing"}}
            /\ \A a, b \in 1..Len(job_ids[p]) :
                   a < b => rows[job_ids[p][a]].created_at < rows[job_ids[p][b]].created_at
            /\ Len(outcomes[p]) <= Len(job_ids[p])
            /\ sess[p] # NoSession =>
                   /\ idx[p] = Len(outcomes[p]) + 1
                   /\ sess[p].job = job_ids[p][idx[p]]

\* a failed job created after a job that was left processing: both are run,
\* the older one first
C13_Witness ==
    \E p \in Passes :
        /\ PassDone(p)
        /\ passResult[p] = "returned"
        /\ job_ids[p] = <<2, 1>>
        /\ startStatus[p][2] = "processing"
        /\ startStatus[p][1] = "failed"
        /\ Len(outcomes[p]) = 2

\* C14 - listing failure aborts the pass: when the listing raises,
\* process_pending_jobs returns without raising, no per-job run is started, and
\* the only change of a row is the sweep's reset to pending.
C14_ListingFailureAborts ==
    \A p \in Passes :
        /\ passResult[p] # "listing_raised"
        /\ passResult[p] = "listing_failed" =>
              /\ PassDone(p)
              /\ job_ids[p] = <<>>
              /\ outcomes[p] = <<>>
              /\ sess[p] = NoSession
              /\ \A j \in JobIds :
                    rows[j].exists =>
                        \/ rows[j].status = startStatus[p][j]
                        \/ startStatus[p][j] = "processing" /\ rows[j].status = "pending"

\* the SELECT fails after the sweep has reset a job, with another job pending
C14_Witness ==
    \E p \in Passes :
        /\ passResult[p] = "listing_failed"
        /\ sweptAt[p] # {}
        /\ \E j \in JobIds : rows[j].exists /\ startStatus[p][j] = "pending"

\* C20 - progress bounds while processing: the Job object a per-job run has
\* marked processing has a progress_percent of at least 10 and at most 90, and a
\* committed progress_percent of 100 goes with a terminal status.
C20_ProgressBounds ==
    /\ \A p \in Passes :
          (sess[p] # NoSession /\ sess[p].status = "processing") =>
              (sess[p].progress_percent >= 10 /\ sess[p].progress_percent <= 90)
    /\ \A j \in JobIds :
          (rows[j].exists /\ rows[j].progress_percent = 100) =>
              rows[j].status \in {"completed", "failed"}

-----------------------------------------------------------------------------
(* Properties of download_sync                                             *)

\* Permits held: by the downloads of the loop and by a download_sync call.
PermitsHeld ==
    Cardinality({t \in Tasks : dl_pc[t] \in {"inflight", "woken"}})
        + Cardinality({c \in SyncCalls : sync[c].pc = "inflight"})

\* C15 - download_sync guard: a call made on a thread with a running event loop
\* ends with RuntimeError, having started no transfer and taken no permit; a call
\* made with no running loop runs download() once and ends with the destination
\* path, or with the error of the transfer.
C15_DownloadSyncGuard ==
    /\ sem_value = max_concurrency - PermitsHeld
    /\ \A c \in SyncCalls :
          /\ (sync[c].pc # "idle" /\ sync[c].loop_running) =>
                (sync[c].pc = "runtime_error" /\ sync[c].transfers = 0)
          /\ (sync[c].pc # "idle" /\ ~sync[c].loop_running) =>
                (sync[c].pc \in {"inflight", "returned", "download_error"}
                    /\ sync[c].transfers = 1)

\* one call refused on a running loop while downloads of that loop hold every
\* permit, and one call with no running loop that returned the path
C15_Witness ==
    /\ \E c \in SyncCalls : sync[c].pc = "runtime_error" /\ sync[c].loop_running
    /\ \E c \in SyncCalls : sync[c].pc = "returned" /\ ~sync[c].loop_running

-----------------------------------------------------------------------------
(* LocalFilesystemStorage (app/backend/services/storage.py)                *)

MaxNameLen == 2
MaxStoredFiles == 2

\* Path components of the names and keys passed in; base_path is /store, and
\* /a is a file outside of it.
Components == {"..", "a", "store"}
BasePath == <<"store">>
OutsideFile == <<"a">>
\* source.name of the uploaded file, and the name uuid4().hex stands for
SourceName == "a"
UuidName == "uuid"

\* destination_name / key: a string, absolute or relative; the relative name
\* without parts is the empty string.
Names == [absolute : BOOLEAN, parts : SeqsUpTo(Components, MaxNameLen)]

\* Path.resolve(): parent references are folded away; the parent of / is /.
RECURSIVE Resolve(_)
Resolve(parts) ==
    IF parts = <<>> THEN <<>>
    ELSE LET init == Resolve(SubSeq(parts, 1, Len(parts) - 1))
             last == parts[Len(parts)]
         IN IF last = ".."
            THEN (IF init = <<>> THEN <<>> ELSE SubSeq(init, 1, Len(init) - 1))
            ELSE Append(init, last)

\* base_path / name: an absolute right operand replaces the left one
JoinPath(base, name) == IF name.absolute THEN name.parts ELSE base \o name.parts

\* Path.parents
Parents(path) == {SubSeq(path, 1, k) : k \in 0..(Len(path) - 1)}

WithinRoot_Mut(path) == TRUE

\* lines 67 and 95: base_path in path.parents or path == base_path
WithinRoot(path) == BasePath \in Parents(path) \/ path = BasePath

\* bool(destination_name): None and "" select a generated name
NameGiven(name) == name.absolute \/ name.parts # <<>>

\* A component of the path below its last one is a regular file.
ThroughFile(path) == \E q \in Parents(path) : q \in st_files

NoStorageCall == [op |-> "none", status |-> "none", path |-> <<>>]
StorageCall(op, status, path) == [op |-> op, status |-> status, path |-> path]

stInit ==
    /\ st_files = {OutsideFile}
    /\ st_uploaded = {}
    /\ st_dirs = {<<>>, BasePath}
    /\ st_result = NoStorageCall

stIdle == stInit

\* upload_file with _resolve_destination, lines 58-91; the store holds at most
\* MaxStoredFiles uploaded files
UploadFile(name, source_exists) ==
    /\ Cardinality(st_uploaded) < MaxStoredFiles \/ ~source_exists
    /\ LET destination == IF NameGiven(name) THEN name.parts ELSE <<UuidName>>
           final_path == Resolve(BasePath \o destination)
           target == IF final_path \in st_dirs THEN Append(final_path, SourceName)
                     ELSE final_path
           made == (Parents(final_path) \cup {<<>>}) \ {final_path}
       IN
       IF ~source_exists
       THEN /\ st_result' = StorageCall("upload_file", "StorageError", <<>>)
            /\ UNCHANGED <<st_files, st_uploaded, st_dirs>>
       ELSE IF NameGiven(name) /\ name.absolute
       THEN /\ st_result' = StorageCall("upload_file", "StorageError", <<>>)
            /\ UNCHANGED <<st_files, st_uploaded, st_dirs>>
       ELSE IF ~WithinRoot(final_path)
       THEN /\ st_result' = StorageCall("upload_file", "StorageError", <<>>)
            /\ UNCHANGED <<st_files, st_uploaded, st_dirs>>
       ELSE IF ThroughFile(final_path)
       THEN \* final_path.parent.mkdir: a parent is a regular file
            /\ st_result' = StorageCall("upload_file", "OSError", final_path)
            /\ UNCHANGED <<st_files, st_uploaded, st_dirs>>
       ELSE IF target \in st_dirs
       THEN \* shutil.copy2: the destination inside the directory is a directory
            /\ st_result' = StorageCall("upload_file", "OSError", target)
            /\ st_dirs' = st_dirs \cup made
            /\ UNCHANGED <<st_files, st_uploaded>>
       ELSE /\ st_dirs' = st_dirs \cup made
            /\ st_files' = st_files \cup {target}
            /\ st_uploaded' = st_uploaded \cup {target}
            /\ st_result' = StorageCall("upload_file", "ok", target)

\* delete_object, lines 93-101
DeleteObject(key) ==
    LET target == Resolve(JoinPath(BasePath, key)) IN
    IF ~WithinRoot(target)
    THEN /\ st_result' = StorageCall("delete_object", "StorageError", <<>>)
         /\ UNCHANGED <<st_files, st_uploaded, st_dirs>>
    ELSE IF target \in st_files
    THEN /\ st_files' = st_files \ {target}
         /\ st_uploaded' = st_uploaded \ {target}
         /\ st_result' = StorageCall("delete_object", "ok", target)
         /\ UNCHANGED st_dirs
    ELSE IF target \in st_dirs \/ ThroughFile(target)
    THEN \* unlink of a directory, or below a regular file: not FileNotFoundError
         /\ st_result' = StorageCall("delete_object", "OSError", target)
         /\ UNCHANGED <<st_files, st_uploaded, st_dirs>>
    ELSE \* FileNotFoundError: return
         /\ st_result' = StorageCall("delete_object", "ok", target)
         /\ UNCHANGED <<st_files, st_uploaded, st_dirs>>

-----------------------------------------------------------------------------
(* Properties of LocalFilesystemStorage                                    *)

\* The path lies below base_path.
InsideBase(path) ==
    /\ Len(path) > Len(BasePath)
    /\ \A i \in 1..Len(BasePath) : path[i] = BasePath[i]

\* C16 - path-traversal guard: a call that does not raise StorageError acted on
\* a path below base_path (or, failing, on base_path itself); the files and
\* directories outside base_path are those that were there before any call, and
\* no upload wrote to one of them.
C16_PathTraversalGuard ==
    /\ st_result.status = "ok" => InsideBase(st_result.path)
    /\ st_result.status = "OSError" =>
          (InsideBase(st_result.path) \/ st_result.path = BasePath)
    /\ {f \in st_files : ~InsideBase(f)} = {OutsideFile}
    /\ \A f \in st_uploaded : InsideBase(f)
    /\ {d \in st_dirs : ~InsideBase(d)} = {<<>>, BasePath}

\* a name with a parent reference that stays inside was stored, and a name that
\* escapes to the file outside was refused
C16_Witness ==
    /\ st_result = StorageCall("delete_object", "StorageError", <<>>)
    /\ <<"store", "a">> \in st_uploaded
    /\ <<"store", "store">> \in st_uploaded
    /\ OutsideFile \in st_files

-----------------------------------------------------------------------------
(* Further properties of the video pipeline                                *)

\* C17 - temp-directory cleanup: whenever no call of generate_trend_video is in
\* progress, no worker temporary directory exists; while a call is between the
\* download and its exit, only the directory of that call exists.
C17_TempDirectoryCleanup ==
    /\ gv_pc = "idle" => temp_dirs = {}
    /\ gv_pc # "idle" => temp_dirs = {gv_runs}

\* a call that failed at the JobMedia registration, after one that failed at
\* the local copy, and no directory is left
C17_Witness ==
    /\ gv_pc = "idle"
    /\ gv_runs = 2
    /\ gv_result.status = "raised"
    /\ gv_result.exc = "record_job_media"
    /\ local_copy = {}
    /\ job_media # {}
    /\ temp_dirs = {}

-----------------------------------------------------------------------------
(* JobService.create_job_with_media_and_campaign                           *)

MaxPayloads == 2
MaxCreates == 2

\* Keys of the job payloads: the mapped columns only, or with the ai_tool label
\* the manual-video form and the tests pass.
JobPayloads == {{"title", "description"}, {"title", "description", "ai_tool"}}

MediaUrls == {"", "   ", " https://cdn.example/video.mp4 "}
MediaTypes == {"", "video/mp4"}
MediaPayloads == [media_url : MediaUrls, media_type : MediaTypes]
CampaignNames == {"", "   ", "Launch Campaign"}

\* _normalize_string: the stripped value, or None ("none") when nothing is left
NormalizeString(value) ==
    CASE value \in {"", "   "} -> "none"
      [] value = " https://cdn.example/video.mp4 " -> "https://cdn.example/video.mp4"
      [] OTHER -> value

\* _validate_media_payload and _validate_campaign_payload raise ValueError
MediaPayloadInvalid(payload) ==
    NormalizeString(payload.media_url) = "none" \/ NormalizeString(payload.media_type) = "none"
CampaignPayloadInvalid(name) == NormalizeString(name) = "none"

\* Job(**job_payload): the declarative constructor raises TypeError for a key
\* that is not a mapped attribute
JobConstructorRaises(keys) == ~(keys \subseteq JobAttributes)

NoRows == [jobs |-> 0, media |-> 0, campaigns |-> 0]
NoPayloads == [job |-> {"title", "description"}, media |-> <<>>, campaign |-> "Launch Campaign"]

jcInit ==
    /\ db = NoRows
    /\ tx = NoRows
    /\ jc_pc = "idle"
    /\ jc_in = NoPayloads
    /\ jc_index = 1
    /\ jc_result = "none"
    /\ jc_before = NoRows
    /\ jc_calls = 0

jcIdle == jcInit

\* except Exception: session.rollback(); raise - and the session is closed
CreateRaises(exc) ==
    /\ tx' = NoRows
    /\ jc_result' = exc
    /\ jc_pc' = "idle"

\* lines 94-117: build the Job, add it to the session and flush
CreateJobBegin ==
    /\ jc_pc = "idle"
    /\ jc_calls < MaxCreates
    /\ jc_calls' = jc_calls + 1
    /\ jc_before' = db
    /\ jc_index' = 1
    /\ \E job \in JobPayloads, media_payloads \in SeqsUpTo(MediaPayloads, MaxPayloads),
          campaign \in CampaignNames :
          /\ jc_in' = [job |-> job, media |-> media_payloads, campaign |-> campaign]
          /\ IF JobConstructorRaises(job)
             THEN CreateRaises("TypeError")
             ELSE /\ tx' = [NoRows EXCEPT !.jobs = 1]
                  /\ jc_pc' = "media"
                  /\ jc_result' = "running"
    /\ UNCHANGED db

\* lines 119-143: validate the next media payload and add its JobMedia
CreateJobMedia ==
    /\ jc_pc = "media"
    /\ jc_index <= Len(jc_in.media)
    /\ IF MediaPayloadInvalid(jc_in.media[jc_index])
       THEN CreateRaises("ValueError") /\ UNCHANGED jc_index
       ELSE /\ tx' = [tx EXCEPT !.media = @ + 1]
            /\ jc_index' = jc_index + 1
            /\ UNCHANGED <<jc_pc, jc_result>>
    /\ UNCHANGED <<db, jc_in, jc_before, jc_calls>>

\* lines 145-153: validate the campaign payload and add the Campaign
CreateCampaign ==
    /\ jc_pc = "media"
    /\ jc_index > Len(jc_in.media)
    /\ IF CampaignPayloadInvalid(jc_in.campaign)
       THEN CreateRaises("ValueError")
       ELSE /\ tx' = [tx EXCEPT !.campaigns = @ + 1]
            /\ jc_pc' = "commit"
            /\ UNCHANGED jc_result
    /\ UNCHANGED <<db, jc_in, jc_index, jc_before, jc_calls>>

\* lines 155-158: commit and return the job; or the commit fails (the store is
\* unavailable) and lines 159-161 roll back and re-raise
CreateCommit ==
    /\ jc_pc = "commit"
    /\ \E ok \in BOOLEAN :
          IF ok
          THEN /\ db' = [jobs |-> db.jobs + tx.jobs, media |-> db.media + tx.media,
                         campaigns |-> db.campaigns + tx.campaigns]
               /\ tx' = NoRows
               /\ jc_result' = "returned"
               /\ jc_pc' = "idle"
          ELSE CreateRaises("OperationalError") /\ UNCHANGED db
    /\ UNCHANGED <<jc_in, jc_index, jc_before, jc_calls>>

-----------------------------------------------------------------------------
(* Properties of the job creation                                          *)

\* A media payload or the campaign payload of the call does not validate.
PayloadsInvalid ==
    \/ \E i \in 1..Len(jc_in.media) : MediaPayloadInvalid(jc_in.media[i])
    \/ CampaignPayloadInvalid(jc_in.campaign)

\* C18 - atomic job creation: the committed rows hold every job with its
\* campaign; a call that has ended added the Job, all its JobMedia and its
\* Campaign, or nothing; and a call with a media or campaign payload that does
\* not validate ended with ValueError and added nothing.
C18_AtomicJobCreation ==
    /\ db.jobs = db.campaigns
    /\ (jc_pc = "idle" /\ jc_result # "none") =>
          /\ \/ db = jc_before
             \/ db = [jobs |-> jc_before.jobs + 1,
                      media |-> jc_before.media + Len(jc_in.media),
                      campaigns |-> jc_before.campaigns + 1]
          /\ PayloadsInvalid => (jc_result = "ValueError" /\ db = jc_before)

-----------------------------------------------------------------------------
(* JobProcessor._validate_job                                              *)

MaxMediaCount == 17

\* progress_percent values a stored job carries: the default, a value set
\* through the job service, and that of a terminal job.
StoredProgress == {0, 10, 45, 100}

MediaProgressStep_Mut(count) == Min2(80 \div count, 5)

\* line 188: media_progress_step = max(80 // len(job.media), 5)
MediaProgressStep(count) == Max2(80 \div count, 5)

\* line 201: job.progress_percent = min(90, int(job.progress_percent or 0) + step)
NextProgress(progress, count) == Min2(90, progress + MediaProgressStep(count))

\* The Job object as line 115 hands it to _validate_job, with 0 to MaxMediaCount
\* media items.
vjInit ==
    /\ vj_count \in 0..MaxMediaCount
    /\ vj_index = 0
    /\ vj_progress \in {ProgressFloor(progress) : progress \in StoredProgress}
    /\ vj_result = "running"

vjIdle ==
    /\ vj_count = 0
    /\ vj_index = 0
    /\ vj_progress = 0
    /\ vj_result = "idle"

\* lines 181-186: a job without media
ValidateJobNoMedia ==
    /\ vj_result = "running"
    /\ vj_count = 0
    /\ vj_result' = "missing_media"
    /\ UNCHANGED <<vj_count, vj_index, vj_progress>>

\* lines 189-202: the next media item is validated inside its stage; when it
\* validates the progress is stepped and flushed, when it does not the
\* JobProcessingError leaves _validate_job
ValidateJobMedia ==
    /\ vj_result = "running"
    /\ vj_index < vj_count
    /\ \E m \in PassMediaSamples :
          IF MediaValidates(m)
          THEN /\ vj_index' = vj_index + 1
               /\ vj_progress' = NextProgress(vj_progress, vj_count)
               /\ UNCHANGED vj_result
          ELSE /\ vj_result' = ValidateMediaSource(m).code
               /\ UNCHANGED <<vj_index, vj_progress>>
    /\ UNCHANGED vj_count

\* the loop is exhausted and _validate_job returns
ValidateJobReturns ==
    /\ vj_result = "running"
    /\ vj_count > 0
    /\ vj_index = vj_count
    /\ vj_result' = "returned"
    /\ UNCHANGED <<vj_count, vj_index, vj_progress>>

-----------------------------------------------------------------------------
(* Further properties of request_with_backoff                              *)

\* The failures named retryable: network errors, an HTTP error without a
\* response, HTTP 429 and the HTTP error statuses from 500 on.
NamedRetryable(o) ==
    \/ o.kind \in NetworkErrors \cup {"HTTPErrorNoResponse"}
    \/ o.kind = "response" /\ RaiseForStatus(o.status) /\ (o.status = 429 \/ o.status >= 500)

-----------------------------------------------------------------------------
(* Further properties of the media validation                              *)

\* C23 - remote status classification: for an http(s) media URL, a HEAD response
\* with a status from 400 on other than 405/501 fails with bad_status (method
\* HEAD), a fallback GET response with a status from 400 on fails with
\* bad_status (method GET), and network_error is produced only when the HEAD or
\* the GET request fails at the network level.
C23_RemoteStatusClassification ==
    (vm_result # NoResult /\ IsRemote(MediaSource(vm_media))) =>
        /\ (/\ vm_media.head.kind = "response"
            /\ vm_media.head.status >= 400
            /\ vm_media.head.status \notin {405, 501}) =>
                (vm_result.code = "bad_status" /\ vm_result.method = "HEAD")
        /\ (/\ vm_media.head.kind = "response"
            /\ vm_media.head.status \in {405, 501}
            /\ vm_media.get.kind = "response"
            /\ vm_media.get.status >= 400) =>
                (vm_result.code = "bad_status" /\ vm_result.method = "GET")
        /\ vm_result.code = "network_error" =>
              \/ vm_media.head.kind \in NetworkErrors
              \/ /\ vm_media.head.kind = "response"
                 /\ vm_media.head.status \in {405, 501}
                 /\ vm_media.get.kind \in NetworkErrors

-----------------------------------------------------------------------------
(* Concurrent passes                                                       *)

\* The job is being run by pass p.
RunningJob(p, j) == sess[p] # NoSession /\ sess[p].job = j

\* While a pass runs a job, the committed row of the job still has the status
\* the pass loaded, which the selection of any pass queues.
MarkIsNoLock ==
    \A p \in Passes : \A j \in JobIds :
        (RunningJob(p, j) /\ rows[j].exists) =>
            /\ rows[j].status = sess[p].loaded
            /\ rows[j].status \in {"pending", "failed"}

\* A pass that lists while another pass runs a job queues that job too, and a
\* pass starts the run of a queued job whether or not another pass runs it.
NoExclusionStep ==
    \A p, q \in Passes : \A j \in JobIds :
        (p # q /\ RunningJob(q, j) /\ rows[j].exists) =>
            /\ (pc[p] = "idle" /\ pc'[p] = "loop") => j \in Range(job_ids'[p])
            /\ (/\ pc[p] = "loop" /\ sess[p] = NoSession /\ sess'[p] # sess[p]
                /\ job_ids[p][idx[p]] = j) => RunningJob(p, j)'

\* C24 - no mutual exclusion between passes: the processing mark of a per-job
\* run is not a lock - while a pass runs a job its committed status stays pending
\* or failed, a concurrent pass that lists then queues the job, and a concurrent
\* pass that has queued it starts its own run of it.
C24_NoMutualExclusion == []MarkIsNoLock /\ [][NoExclusionStep]_vars

\* both passes selected the same pending job and each is running it
C24_Witness ==
    \E j \in JobIds :
        /\ RunningJob("job-reprocessor", j)
        /\ RunningJob("job-reprocessor-2", j)
        /\ startStatus["job-reprocessor"][j] = "pending"
        /\ startStatus["job-reprocessor-2"][j] = "pending"
        /\ rows[j].exists

-----------------------------------------------------------------------------
(* Stage order of the video pipeline                                       *)

\* Every stage is entered from the stage before it, which succeeded; the
\* optional stages are entered only when configured, and none is skipped.
StageOrderStep ==
    /\ gv_pc' # gv_pc =>
          /\ gv_pc' = "download_preview" => gv_pc = "idle"
          /\ gv_pc' = "render_video" => (gv_pc = "download_preview" /\ gv_exc' = "none")
          /\ gv_pc' = "upload_video" => (gv_pc = "render_video" /\ gv_exc' = "none")
          /\ gv_pc' = "record_job_media" =>
                /\ gv_pc = "upload_video"
                /\ gv_exc' = "none"
                /\ gv_upload' # "none"
                /\ gv_cfg.has_session
          /\ gv_pc' = "persist_local_copy" =>
                /\ gv_exc' = "none"
                /\ gv_upload' # "none"
                /\ gv_cfg.has_output_path
                /\ IF gv_cfg.has_session
                   THEN gv_pc = "record_job_media" /\ gv_media_id' # 0
                   ELSE gv_pc = "upload_video"
          /\ (gv_pc' = "cleanup" /\ gv_exc' = "none") =>
                \/ gv_pc = "persist_local_copy"
                \/ gv_pc = "record_job_media" /\ ~gv_cfg.has_output_path
                \/ gv_pc = "upload_video" /\ ~gv_cfg.has_session /\ ~gv_cfg.has_output_path
    /\ storage' # storage => (gv_pc = "upload_video" /\ gv_exc = "none")
    /\ (gv_media_id' # gv_media_id /\ gv_media_id' # 0) =>
          (gv_pc = "record_job_media" /\ gv_cfg.has_session /\ gv_upload # "none")
    /\ job_media' # job_media => gv_media_id' # gv_media_id
    /\ local_copy' # local_copy => (gv_pc = "persist_local_copy" /\ gv_cfg.has_output_path)

StageOrderInv ==
    /\ gv_exc \in {"download_preview", "render_video", "upload_video"} =>
          (gv_upload = "none" /\ gv_media_id = 0)
    /\ (gv_pc = "idle" /\ gv_result.status = "returned") =>
          /\ gv_result.key # "none"
          /\ gv_result.job_media_id = 0 <=> ~gv_cfg.has_session

\* C25 - pipeline stage order: the stages run in the order download_preview,
\* render_video, upload_video, record_job_media (with a db session only),
\* persist_local_copy (with an output_path only), each after the success of all
\* earlier ones: nothing is uploaded when download or render failed, no JobMedia
\* row is added when the upload failed, and without a session the job_media_id
\* of the result is null.
C25_StageOrder == []StageOrderInv /\ [][StageOrderStep]_vars

\* a call without session that returned a result with a local copy and no
\* job_media_id, after a call with a session that recorded its JobMedia
C25_Witness ==
    /\ gv_pc = "idle"
    /\ gv_runs = 2
    /\ gv_result.status = "returned"
    /\ gv_result.job_media_id = 0
    /\ ~gv_cfg.has_session
    /\ gv_result.key \in local_copy
    /\ job_media # {}

-----------------------------------------------------------------------------
(* Job log of a per-job run                                                *)

\* The events the job log has received when a call of _process_single_job ends
\* with `outcome`: job_context creates the log file and attaches its handler
\* (lines 120-130), so a run that raises at line 115, or at the call of
\* job_context itself, has written nothing and has no handler to close.
JobLogEvents(outcome) ==
    IF outcome \in {"skipped", "AttributeError", "TypeError"}
    THEN <<>>
    ELSE <<"job_reprocessing_started", outcome>>

\* C26 - per-job log protocol: the job log of every per-job run that has ended
\* starts with job_reprocessing_started and ends with exactly one terminal event,
\* job_reprocessing_completed or job_reprocessing_failed.
C26_JobLogProtocol ==
    \A p \in Passes : \A i \in EndedRuns(p) :
        LET log == JobLogEvents(outcomes[p][i]) IN
        /\ Len(log) >= 2
        /\ log[1] = "job_reprocessing_started"
        /\ log[Len(log)] \in {"job_reprocessing_completed", "job_reprocessing_failed"}
        /\ \A k \in 1..(Len(log) - 1) :
              log[k] \notin {"job_reprocessing_completed", "job_reprocessing_failed"}

-----------------------------------------------------------------------------
(* Committed statuses after a pass                                         *)

\* C27 as stated - no job is left in processing by a pass: when
\* process_pending_jobs has returned, the committed status of every job is
\* pending, completed or failed.
C27_NoJobLeftProcessing ==
    \A p \in Passes :
        PassDone(p) =>
            \A j \in JobIds :
                rows[j].exists => rows[j].status \in {"pending", "completed", "failed"}

\* C27 amended - when process_pending_jobs has returned after its loop (or with
\* nothing to do), no job is processing; when it has returned because the
\* listing failed, a job is processing only if it was processing when the pass
\* started and the listing failed before the sweep was committed.
C27_NoJobLeftProcessingAmended ==
    \A p \in Passes :
        PassDone(p) =>
            \A j \in JobIds :
                (rows[j].exists /\ rows[j].status = "processing") =>
                    /\ passResult[p] = "listing_failed"
                    /\ startStatus[p][j] = "processing"
                    /\ sweptAt[p] = {}

\* a job left processing by a crash was swept and run, the run ended with an
\* error, and the pass returned: the job is pending
C27_Witness ==
    \E p \in Passes : \E j \in JobIds :
        /\ PassDone(p)
        /\ passResult[p] = "returned"
        /\ startStatus[p][j] = "processing"
        /\ j \in sweptAt[p]
        /\ j \in Range(job_ids[p])
        /\ Len(outcomes[p]) = Len(job_ids[p])
        /\ rows[j].exists
        /\ rows[j].status = "pending"

\* C28 - frame condition on completed jobs: a job that is completed when a pass
\* makes its selection is neither swept nor queued by that pass, and its row
\* (status, progress_percent, error_details) is, during the pass and when it
\* has returned, the row the pass found.
C28_CompletedUntouched ==
    \A p \in Passes : \A j \in JobIds :
        (startStatus[p][j] = "completed" /\ rows[j].exists) =>
            /\ j \notin sweptAt[p]
            /\ j \notin Range(job_ids[p])
            /\ rows[j] = prevPass.rows[j]
            /\ rows[j].status = "completed"

\* the pass has returned after sweeping and running another job, next to a
\* completed one
C28_Witness ==
    \E p \in Passes : \E j, k \in JobIds :
        /\ PassDone(p)
        /\ passResult[p] = "returned"
        /\ startStatus[p][j] = "completed"
        /\ rows[j].exists
        /\ k \in sweptAt[p]
        /\ job_ids[p] = <<k>>
        /\ Len(outcomes[p]) = 1
        /\ outcomes[p][1] # "skipped"

-----------------------------------------------------------------------------
(* Jobs deleted during a pass                                              *)

\* The step a pass takes when the turn of a selected job comes and the job no
\* longer exists: the call is a skip, nothing is loaded, no row is changed, and the pass stays
\* in its loop at the next position.
DeletedJobStep ==
    \A p \in Passes :
        (/\ pc[p] = "loop" /\ sess[p] = NoSession /\ idx[p] <= Len(job_ids[p])
         /\ ~rows[job_ids[p][idx[p]]].exists
         /\ (sess'[p] # sess[p] \/ outcomes'[p] # outcomes[p])) =>
            /\ outcomes'[p] = Append(outcomes[p], "skipped")
            /\ sess'[p] = NoSession
            /\ rows' = rows /\ media' = media
            /\ pc'[p] = "loop" /\ passResult'[p] = "running"
            /\ idx'[p] = idx[p] + 1

\* A skipped job did not exist, and a pass that has returned from its loop has
\* called _process_single_job for every selected job, skipped or not.
DeletedJobInv ==
    \A p \in Passes :
        /\ \A i \in 1..Len(outcomes[p]) :
              outcomes[p][i] = "skipped" => ~rows[job_ids[p][i]].exists
        /\ (PassDone(p) /\ passResult[p] = "returned") =>
              Len(outcomes[p]) = Len(job_ids[p])

\* C30 - job deleted mid-pass: when the turn of a selected job comes and the job
\* no longer exists, _process_single_job returns without loading, creating or
\* changing a row and without raising, and the pass goes on with the remaining
\* selected jobs.
C30_DeletedJobSkipped == []DeletedJobInv /\ [][DeletedJobStep]_vars

\* the first selected job was deleted after the listing and skipped, the second
\* one was run, and the pass returned
C30_Witness ==
    \E p \in Passes :
        /\ PassDone(p)
        /\ passResult[p] = "returned"
        /\ Len(job_ids[p]) = 2
        /\ Len(outcomes[p]) = 2
        /\ outcomes[p][1] = "skipped"
        /\ outcomes[p][2] # "skipped"
        /\ startStatus[p][job_ids[p][1]] \in {"pending", "failed", "processing"}

-----------------------------------------------------------------------------
(* Permits of the download manager                                         *)

\* Every permit is free or held by a download that has not ended; nobody waits
\* while a permit is free; and with no download left every permit is free.
PermitsInv ==
    /\ sem_value \in 0..max_concurrency
    /\ sem_value + PermitsHeld = max_concurrency
    /\ sem_waiters # <<>> => sem_value = 0
    /\ \A t \in Tasks : dl_pc[t] = "waiting" <=> t \in Range(sem_waiters)
    /\ PermitsHeld = 0 => (sem_value = max_concurrency /\ sem_waiters = <<>>)

\* C29 - no permit leak: every download() call gives its permit back whether the
\* transfer returned or raised, so that all permits are free again once no
\* download is in flight, and a download waiting on the semaphore eventually
\* proceeds, running downloads terminating.
C29_NoPermitLeak ==
    /\ []PermitsInv
    /\ \A t \in Tasks : (dl_pc[t] = "waiting") ~> (dl_pc[t] = "inflight")

\* every download has ended, one of them with an error after waiting for its
\* permit, and all permits are free
C29_Witness ==
    /\ \A t \in Tasks : dl_pc[t] \in {"done", "failed"}
    /\ \E t \in Tasks : dl_pc[t] = "failed"
    /\ \E t \in Tasks : dl_pc[t] = "done"
    /\ max_concurrency = 2
    /\ sem_value = 2

otherThanJp == <<vmVars, rbVars, gvVars, dlVars, stVars, jcVars, vjVars>>
otherThanVm == <<jpVars, rbVars, gvVars, dlVars, stVars, jcVars, vjVars>>
otherThanRb == <<jpVars, vmVars, gvVars, dlVars, stVars, jcVars, vjVars>>
otherThanGv == <<jpVars, vmVars, rbVars, dlVars, stVars, jcVars, vjVars>>
otherThanDl == <<jpVars, vmVars, rbVars, gvVars, stVars, jcVars, vjVars>>
otherThanSt == <<jpVars, vmVars, rbVars, gvVars, dlVars, jcVars, vjVars>>
otherThanJc == <<jpVars, vmVars, rbVars, gvVars, dlVars, stVars, vjVars>>
otherThanVj == <<jpVars, vmVars, rbVars, gvVars, dlVars, stVars, jcVars>>

\* ---- specification of the reprocessing pass ----
Init == jpInit /\ vmIdle /\ rbIdle /\ gvIdle /\ dlIdle /\ stIdle /\ jcIdle /\ vjIdle

Next ==
    \/ \E p \in Passes : CollectJobsForReprocessing(p) /\ UNCHANGED otherThanJp
    \/ \E p \in Passes : CollectJobsFails(p) /\ UNCHANGED otherThanJp
    \/ \E p \in Passes : ProcessSingleJobLoad(p) /\ UNCHANGED otherThanJp
    \/ \E p \in Passes : ProcessSingleJobRaises(p) /\ UNCHANGED otherThanJp
    \/ \E p \in Passes : FinishPass(p) /\ UNCHANGED otherThanJp
    \/ \E j \in JobIds : DeleteJob(j) /\ UNCHANGED otherThanJp
    \/ \E p \in Passes : ScheduleJobReprocessing(p) /\ UNCHANGED otherThanJp

Spec == Init /\ [][Next]_vars

\* ---- specification of one media validation ----
InitMedia == jpIdle /\ rbIdle /\ gvIdle /\ dlIdle /\ stIdle /\ jcIdle /\ vm_media \in MediaInputs /\ vm_result = NoResult /\ vjIdle

NextMedia == ValidateMedia /\ UNCHANGED otherThanVm

SpecMedia == InitMedia /\ [][NextMedia]_vars

\* ---- specification of one call of request_with_backoff ----
InitRetry == jpIdle /\ vmIdle /\ rbInit /\ gvIdle /\ dlIdle /\ stIdle /\ jcIdle /\ vjIdle

NextRetry ==
    \/ RequestSucceeds /\ UNCHANGED otherThanRb
    \/ RequestFailsFatally /\ UNCHANGED otherThanRb
    \/ RequestFailsExhausted /\ UNCHANGED otherThanRb
    \/ RequestFailsAndRetries /\ UNCHANGED otherThanRb

SpecRetry == InitRetry /\ [][NextRetry]_vars

\* ---- specification of the video pipeline ----
InitPipeline == jpIdle /\ vmIdle /\ rbIdle /\ gvInit /\ dlIdle /\ stIdle /\ jcIdle /\ vjIdle

NextPipeline ==
    \/ StartGenerate /\ UNCHANGED otherThanGv
    \/ DownloadPreview /\ UNCHANGED otherThanGv
    \/ RenderVideo /\ UNCHANGED otherThanGv
    \/ UploadVideo /\ UNCHANGED otherThanGv
    \/ RecordJobMedia /\ UNCHANGED otherThanGv
    \/ PersistLocalCopy /\ UNCHANGED otherThanGv
    \/ ExitGenerate /\ UNCHANGED otherThanGv
    \/ LegacyGenerate /\ UNCHANGED otherThanGv

SpecPipeline == InitPipeline /\ [][NextPipeline]_vars

\* ---- specification of the download manager ----
InitDownload == jpIdle /\ vmIdle /\ rbIdle /\ gvIdle /\ dlInit /\ stIdle /\ jcIdle /\ vjIdle

NextDownload ==
    \/ \E t \in Tasks : DownloadAcquire(t) /\ UNCHANGED otherThanDl
    \/ \E t \in Tasks : DownloadResume(t) /\ UNCHANGED otherThanDl
    \/ \E t \in Tasks : DownloadEnds(t) /\ UNCHANGED otherThanDl
    \/ \E c \in SyncCalls : DownloadSyncRefused(c) /\ UNCHANGED otherThanDl
    \/ \E c \in SyncCalls : DownloadSyncStarts(c) /\ UNCHANGED otherThanDl
    \/ \E c \in SyncCalls : DownloadSyncEnds(c) /\ UNCHANGED otherThanDl

SpecDownload == InitDownload /\ [][NextDownload]_vars

\* The transfer started by run_in_executor ends (it returns or raises), and the
\* event loop runs a task whose wait on the semaphore was ended.
SpecDownloadFair ==
    /\ SpecDownload
    /\ \A t \in Tasks : WF_vars(DownloadEnds(t) /\ UNCHANGED otherThanDl)
    /\ \A t \in Tasks : WF_vars(DownloadResume(t) /\ UNCHANGED otherThanDl)
    /\ \A c \in SyncCalls : WF_vars(DownloadSyncEnds(c) /\ UNCHANGED otherThanDl)

\* ---- specification of the local storage ----
InitStorage == jpIdle /\ vmIdle /\ rbIdle /\ gvIdle /\ dlIdle /\ stInit /\ jcIdle /\ vjIdle

NextStorage ==
    \/ \E name \in Names, source_exists \in BOOLEAN :
          UploadFile(name, source_exists) /\ UNCHANGED otherThanSt
    \/ \E key \in Names : DeleteObject(key) /\ UNCHANGED otherThanSt

SpecStorage == InitStorage /\ [][NextStorage]_vars

\* ---- specification of the job creation ----
InitCreate == jpIdle /\ vmIdle /\ rbIdle /\ gvIdle /\ dlIdle /\ stIdle /\ jcInit /\ vjIdle

NextCreate ==
    \/ CreateJobBegin /\ UNCHANGED otherThanJc
    \/ CreateJobMedia /\ UNCHANGED otherThanJc
    \/ CreateCampaign /\ UNCHANGED otherThanJc
    \/ CreateCommit /\ UNCHANGED otherThanJc

SpecCreate == InitCreate /\ [][NextCreate]_vars

\* ---- specification of one call of _validate_job ----
InitValidateJob == jpIdle /\ vmIdle /\ rbIdle /\ gvIdle /\ dlIdle /\ stIdle /\ jcIdle /\ vjInit

NextValidateJob ==
    \/ ValidateJobNoMedia /\ UNCHANGED otherThanVj
    \/ ValidateJobMedia /\ UNCHANGED otherThanVj
    \/ ValidateJobReturns /\ UNCHANGED otherThanVj

SpecValidateJob == InitValidateJob /\ [][NextValidateJob]_vars

\* ---- specification of two concurrent reprocessing passes ----
InitConcurrent ==
    /\ jpInitOf(Passes)
    /\ media = [j \in JobIds |-> <<GoodLocal>>]
    /\ vmIdle /\ rbIdle /\ gvIdle /\ dlIdle /\ stIdle /\ jcIdle /\ vjIdle

NextConcurrent ==
    \/ \E p \in Passes : CollectJobsForReprocessing(p) /\ UNCHANGED otherThanJp
    \/ \E p \in Passes : ProcessSingleJobLoad(p) /\ UNCHANGED otherThanJp
    \/ \E p \in Passes : ProcessSingleJobRaises(p) /\ UNCHANGED otherThanJp
    \/ \E p \in Passes : FinishPass(p) /\ UNCHANGED otherThanJp

SpecConcurrent == InitConcurrent /\ [][NextConcurrent]_vars

=============================================================================
